---- MODULE Spec2Model ----
(***************************************************************************)
(* Model of the message discovery and text-extraction pipeline of          *)
(* EMAIL-Consumption-Values: src/parser.py (section parser and message     *)
(* parser), src/models.py (validators) and the text extractor of           *)
(* src/scraper.py.                                                         *)
(*                                                                         *)
(* Text is modelled as a sequence of lexical tokens.  A token is a record  *)
(* [t, s, n]: t is the token class, s its characters and n its numeric     *)
(* value.  Classes: "w" a word or fixed phrase, "ws" horizontal whitespace,*)
(* "nl" a line-ending character, "d4" a run of four digits, "colon",       *)
(* "dec" a decimal number digits[.,]digits (s is the separator, n the      *)
(* value in tenths) and "unit" one of the unit tokens.  The regular        *)
(* expressions of the source are evaluated over these tokens.              *)
(* Strings are written in ASCII: "m3" is the cubic-metre unit token,       *)
(* "Maerz" and "Viele Gruesse" stand for the words with umlaut and sharp   *)
(* s, and "{U+017F}" for the letter LATIN SMALL LETTER LONG S.             *)
(***************************************************************************)
EXTENDS Integers, Sequences, FiniteSets, TLC

\* ------------------------------------------------------------------------
\* Tokens
\* ------------------------------------------------------------------------
W(s) == [t |-> "w", s |-> s, n |-> 0]
SP == [t |-> "ws", s |-> " ", n |-> 0]
TAB == [t |-> "ws", s |-> "\t", n |-> 0]
LF == [t |-> "nl", s |-> "\n", n |-> 0]
CR == [t |-> "nl", s |-> "\r", n |-> 0]
COLON == [t |-> "colon", s |-> ":", n |-> 0]
D4(y) == [t |-> "d4", s |-> "", n |-> y]
Dec(sep, tenths) == [t |-> "dec", s |-> sep, n |-> tenths]
Unit(u) == [t |-> "unit", s |-> u, n |-> 0]

\* str.lower() on the vocabulary of the model.  U+017F (long s) is already
\* lower case and is left alone; every other letter maps to its lower case.
LowerStr(s) ==
  CASE s \in {"Kaltwasser", "KALTWASSER"} -> "kaltwasser"
    [] s \in {"Warmwasser", "WARMWASSER"} -> "warmwasser"
    [] s \in {"Heizung", "HEIZUNG"} -> "heizung"
    [] s \in {"Falls Sie Fragen", "FALLS SIE FRAGEN"} -> "falls sie fragen"
    [] s \in {"Mit freundlichen", "MIT FREUNDLICHEN"} -> "mit freundlichen"
    [] s = "Viele Gruesse" -> "viele gruesse"
    [] s = "Bitte beachten" -> "bitte beachten"
    [] s \in {"Verbrauchswerte", "VERBRAUCHSWERTE"} -> "verbrauchswerte"
    [] s = "Durchschnitt" -> "durchschnitt"
    [] s = "auf Basis" -> "auf basis"
    [] s = "Januar" -> "januar"
    [] s = "MAERZ" -> "maerz"
    [] s = "Mai" -> "mai"
    [] s = "Augu{U+017F}t" -> "augu{U+017F}t"
    [] s = "August" -> "august"
    [] s = "Dezember" -> "dezember"
    [] OTHER -> s

\* Case-insensitive matching of the re module (re.IGNORECASE): two letters
\* match when their simple case foldings are equal; U+017F folds to "s".
FoldOf(lowered) == IF lowered = "augu{U+017F}t" THEN "august" ELSE lowered
FoldStr(s) == FoldOf(LowerStr(s))

IsSpace(tok) == tok.t \in {"ws", "nl"}

Min(S) == CHOOSE i \in S : \A j \in S : i <= j
Max(S) == CHOOSE i \in S : \A j \in S : j <= i
MinOr(S, default) == IF S = {} THEN default ELSE Min(S)

\* str.lower() and str.strip() on token sequences
LowerTok(tok) == IF tok.t = "w" THEN W(LowerStr(tok.s)) ELSE tok
Lower(str) == [i \in 1..Len(str) |-> LowerTok(str[i])]

Between(str, idx) == IF idx = {} THEN <<>> ELSE SubSeq(str, Min(idx), Max(idx))
Strip(str) == Between(str, {i \in 1..Len(str) : ~IsSpace(str[i])})

StartsWith(str, prefix) ==
  /\ Len(prefix) <= Len(str)
  /\ SubSeq(str, 1, Len(prefix)) = prefix

\* the members of S between lo and hi as an increasing sequence
RECURSIVE SortedIdx(_, _, _)
SortedIdx(S, lo, hi) ==
  IF lo > hi THEN <<>>
  ELSE IF lo = hi THEN (IF lo \in S THEN <<lo>> ELSE <<>>)
  ELSE SortedIdx(S, lo, (lo + hi) \div 2) \o SortedIdx(S, (lo + hi) \div 2 + 1, hi)

\* the tokens of text at the positions idx
Select(text, idx) == [k \in 1..Len(idx) |-> text[idx[k]]]

\* first index >= i of str that is not whitespace (Len(str)+1 if none): \s*
SkipSpace(str, i) == MinOr({j \in i..Len(str) : ~IsSpace(str[j])}, Len(str) + 1)

\* position k of str holds a token of class t
TokAt(str, k, t) == k <= Len(str) /\ str[k].t = t

\* position k of str holds the word w, letter case ignored
WordAt(str, k, w) == TokAt(str, k, "w") /\ FoldStr(str[k].s) = w

\* ------------------------------------------------------------------------
\* src/parser.py: tables and patterns
\* ------------------------------------------------------------------------
MONTH_MAP ==
  [m \in {"januar", "februar", "maerz", "april", "mai", "juni", "juli",
          "august", "september", "oktober", "november", "dezember"} |->
     CASE m = "januar" -> 1 [] m = "februar" -> 2 [] m = "maerz" -> 3
       [] m = "april" -> 4 [] m = "mai" -> 5 [] m = "juni" -> 6
       [] m = "juli" -> 7 [] m = "august" -> 8 [] m = "september" -> 9
       [] m = "oktober" -> 10 [] m = "november" -> 11 [] m = "dezember" -> 12]

\* (Januar|...|Dezember)\s+(\d{4}) with re.IGNORECASE: the positions where
\* the pattern matches
MONTH_YEAR_PATTERN(str) ==
  {i \in 1..Len(str) :
     /\ str[i].t = "w"
     /\ FoldStr(str[i].s) \in DOMAIN MONTH_MAP
     /\ i + 1 <= Len(str)
     /\ IsSpace(str[i + 1])
     /\ TokAt(str, SkipSpace(str, i + 1), "d4")}

\* (m3|kWh): the positions of unit tokens
UNIT_PATTERN(str) == {i \in 1..Len(str) : str[i].t = "unit"}

\* (\d+[.,]\d+)\s*(m3|kWh) matches at position j
DecUnitAt(str, j) == TokAt(str, j, "dec") /\ TokAt(str, SkipSpace(str, j + 1), "unit")

\* :\s*(\d+[.,]\d+)\s*(m3|kWh) matches with its colon at position c
ValueAfterColon(str, c) == TokAt(str, c, "colon") /\ DecUnitAt(str, SkipSpace(str, c + 1))

\* (\d{4}):\s*(\d+[.,]\d+)\s*(m3|kWh): the positions where a match starts
CURRENT_VALUE_PATTERN(str) ==
  {i \in 1..Len(str) : str[i].t = "d4" /\ ValueAfterColon(str, i + 1)}

\* first position after the prefix of an average line that starts at i
\* (0 if none starts there): Durchschnitt | Heizung auf Basis, IGNORECASE
AveragePrefixEnd(str, i) ==
  IF WordAt(str, i, "durchschnitt") THEN i + 1
  ELSE IF /\ WordAt(str, i, "heizung")
          /\ i + 1 <= Len(str)
          /\ str[i + 1] = SP
          /\ WordAt(str, i + 2, "auf basis")
       THEN i + 3
       ELSE 0

\* the colons at which (?:Durchschnitt.*?|Heizung auf Basis.*?): ... can end
\* when the prefix ends before position p; "." does not match "\n"
AverageColonsFrom(str, p) ==
  IF p = 0 THEN {}
  ELSE {c \in p..Len(str) :
          ValueAfterColon(str, c) /\ \A k \in p..(c - 1) : str[k] # LF}

AverageColons(str, i) == AverageColonsFrom(str, AveragePrefixEnd(str, i))

\* the positions where AVERAGE_PATTERN matches
AVERAGE_PATTERN(str) == {i \in 1..Len(str) : AverageColons(str, i) # {}}

SECTION_HEADERS == {<<W("kaltwasser")>>, <<W("warmwasser")>>, <<W("heizung")>>}
SECTION_END_MARKER == <<W("falls sie fragen")>>

Ok(v) == [ok |-> TRUE, val |-> v]
Raise(type, msg, name) == [ok |-> FALSE, val |-> [type |-> type, msg |-> msg, name |-> name]]

\* hashlib.sha256(text.encode("utf-8")).hexdigest(): a digest that is
\* determined by the text and differs for different texts
generate_content_hash(text) == [sha256 |-> text]

\* the groups of the month/year match at position i
MonthYearGroups(text, i) ==
  Ok([month |-> text[i].s, year |-> text[SkipSpace(text, i + 1)].n])

MonthYearSearch(text, matches) ==
  IF matches = {}
  THEN Raise("ValueError", "Could not find month and year in message", "")
  ELSE MonthYearGroups(text, Min(matches))

parse_month_year(text) == MonthYearSearch(text, MONTH_YEAR_PATTERN(text))

\* "\r" to "\n"
CrToLf(text) == [k \in 1..Len(text) |-> IF text[k] = CR THEN LF ELSE text[k]]

\* text.replace("\r\n", "\n").replace("\r", "\n")
ReplaceNewlines(text) ==
  CrToLf(Select(text,
                SortedIdx({i \in 1..Len(text) :
                             ~(text[i] = CR /\ i < Len(text) /\ text[i + 1] = LF)},
                          1, Len(text))))

\* the pieces of text between the positions breaks
Pieces(text, breaks) ==
  [k \in 1..(Len(breaks) + 1) |->
     SubSeq(text, IF k = 1 THEN 1 ELSE breaks[k - 1] + 1,
                  IF k = Len(breaks) + 1 THEN Len(text) ELSE breaks[k] - 1)]

\* str.split("\n")
SplitLines(text) ==
  Pieces(text, SortedIdx({i \in 1..Len(text) : text[i] = LF}, 1, Len(text)))

\* "\n".join(lines[lo..hi])
RECURSIVE JoinRange(_, _, _)
JoinRange(lines, lo, hi) ==
  IF lo > hi THEN <<>>
  ELSE IF lo = hi THEN lines[lo]
  ELSE JoinRange(lines, lo, (lo + hi) \div 2) \o <<LF>>
       \o JoinRange(lines, (lo + hi) \div 2 + 1, hi)

\* line.strip().lower() == section_name.lower()
IsSectionStart(line, section_name) ==
  Lower(Strip(line)) = Lower(<<W(section_name)>>)

\* a collecting loop that takes every line beginning with another header name
\* for a boundary
IsBoundary_prefix(normalized, lowered_name) ==
  \/ /\ \E h \in SECTION_HEADERS : StartsWith(normalized, h)
     /\ normalized # lowered_name
  \/ StartsWith(normalized, SECTION_END_MARKER)

\* the two break conditions of the collecting loop
IsBoundary(normalized, lowered_name) ==
  \/ normalized \in SECTION_HEADERS /\ normalized # lowered_name
  \/ StartsWith(normalized, SECTION_END_MARKER)

IsSectionBoundary(line, section_name) ==
  IsBoundary(Lower(Strip(line)), Lower(<<W(section_name)>>))

\* a collecting loop that never breaks
CollectFrom_to_end(lines, section_name, start_idx) ==
  [found |-> TRUE, first |-> start_idx, last |-> Len(lines)]

\* the lines collected from start_idx on: [found, first, last] as line numbers
CollectFrom(lines, section_name, start_idx) ==
  [found |-> TRUE, first |-> start_idx,
   last |-> MinOr({j \in start_idx..Len(lines) :
                     IsSectionBoundary(lines[j], section_name)},
                  Len(lines) + 1) - 1]

SectionStart(lines, section_name, starts) ==
  IF starts = {} THEN [found |-> FALSE, first |-> 0, last |-> 0]
  ELSE CollectFrom(lines, section_name, Min(starts) + 1)

SectionLines(lines, section_name) ==
  SectionStart(lines, section_name,
               {i \in 1..Len(lines) : IsSectionStart(lines[i], section_name)})

NonEmptySection(section_text, section_name) ==
  IF section_text = <<>>
  THEN Raise("ValueError", "Could not parse content for", section_name)
  ELSE Ok(section_text)

JoinedSection(lines, sl, section_name) ==
  IF ~sl.found
  THEN Raise("ValueError", "Could not find section", section_name)
  ELSE NonEmptySection(Strip(JoinRange(lines, sl.first, sl.last)), section_name)

SectionOfLines(lines, section_name) ==
  JoinedSection(lines, SectionLines(lines, section_name), section_name)

_extract_section_text(text, section_name) ==
  SectionOfLines(SplitLines(ReplaceNewlines(text)), section_name)

\* float(value_str.replace(",", ".")): the value of a decimal token, in tenths
_parse_numeric_value(tok) == [tok EXCEPT !.s = "."].n

\* ConsumptionData.validate_positive
validate_positive(v) == ~(v < 0)

\* ConsumptionData(...)
ConsumptionData(current_value, prev_value, avg_value, unit) ==
  IF validate_positive(current_value) /\ validate_positive(prev_value)
     /\ validate_positive(avg_value)
  THEN Ok([current_month |-> current_value, previous_year |-> prev_value,
           property_average |-> avg_value, unit |-> unit])
  ELSE Raise("ValidationError", "Consumption values must be non-negative", "")

\* group 2 of the CURRENT_VALUE_PATTERN match that starts at position p
CurrentGroup(str, p) == str[SkipSpace(str, p + 2)]

\* group 1 of the AVERAGE_PATTERN match that starts at position p
AverageGroup(str, p) == str[SkipSpace(str, Min(AverageColons(str, p)) + 1)]

\* current_matches[0]
CurrentMatch(current_matches) == current_matches[1]

\* a previous-year value taken from the last occurrence
PreviousMatch_last(current_matches) == current_matches[Len(current_matches)]

\* current_matches[1]
PreviousMatch(current_matches) == current_matches[2]

SectionData(section_text, section_name, unit_matches, current_matches, avg_matches) ==
  IF unit_matches = {}
  THEN Raise("ValueError", "Could not determine unit for", section_name)
  ELSE IF Len(current_matches) < 2
  THEN Raise("ValueError",
             "Could not find both current month and previous year values for",
             section_name)
  ELSE IF avg_matches = {}
  THEN Raise("ValueError", "Could not find property average for", section_name)
  ELSE ConsumptionData(
         _parse_numeric_value(CurrentGroup(section_text, CurrentMatch(current_matches))),
         _parse_numeric_value(CurrentGroup(section_text, PreviousMatch(current_matches))),
         _parse_numeric_value(AverageGroup(section_text, Min(avg_matches))),
         section_text[Min(unit_matches)].s)

ParseSectionText(section_text, section_name) ==
  SectionData(section_text, section_name,
              UNIT_PATTERN(section_text),
              SortedIdx(CURRENT_VALUE_PATTERN(section_text), 1, Len(section_text)),
              AVERAGE_PATTERN(section_text))

ParseExtracted(ext, section_name) ==
  IF ~ext.ok THEN ext ELSE ParseSectionText(ext.val, section_name)

parse_consumption_section(text, section_name) ==
  ParseExtracted(_extract_section_text(text, section_name), section_name)

\* ------------------------------------------------------------------------
\* src/models.py
\* ------------------------------------------------------------------------
\* a year check whose bounds are off by one
validate_year_wide(v) == ~(v < 1999 \/ v > 2101)

\* ParsedMessage.validate_year
validate_year(v) == ~(v < 2000 \/ v > 2100)

\* datetime.date(year, month, 1) accepts the years MINYEAR..MAXYEAR only
DateValid(y) == 1 <= y /\ y <= 9999

\* parser.py lines 146-177 for the month and year found and the outcomes
\* k, w, h of the three section parses
ParsedOf(text, my, k, w, h) ==
  IF ~k.ok THEN k
  ELSE IF ~w.ok THEN w
  ELSE IF ~h.ok THEN h
  ELSE IF ~validate_year(my.year)
  THEN Raise("ValidationError", "Year must be between 2000 and 2100", "")
  ELSE Ok([month |-> my.month, year |-> my.year,
           message_date |-> [year |-> my.year, month |-> MONTH_MAP[LowerStr(my.month)],
                             day |-> 1],
           kaltwasser |-> k.val, warmwasser |-> w.val, heizung |-> h.val,
           raw_message |-> text, content_hash |-> generate_content_hash(text)])

\* parser.py lines 139-144 for the outcome my of parse_month_year
ParsedFrom(text, my) ==
  IF ~my.ok THEN my
  ELSE IF LowerStr(my.val.month) \notin DOMAIN MONTH_MAP
  THEN Raise("KeyError", LowerStr(my.val.month), "")
  ELSE IF ~DateValid(my.val.year)
  THEN Raise("ValueError", "year is out of range", "")
  ELSE ParsedOf(text, my.val, parse_consumption_section(text, "Kaltwasser"),
                parse_consumption_section(text, "Warmwasser"),
                parse_consumption_section(text, "Heizung"))

\* parse_message as a function of the raw text
parse_message(text) == ParsedFrom(text, parse_month_year(text))

\* ------------------------------------------------------------------------
\* Inputs of the message parser
\* ------------------------------------------------------------------------
MaxOcc == 3

BlockName(b) ==
  CASE b = 1 -> "Kaltwasser" [] b = 2 -> "Warmwasser" [] b = 3 -> "Heizung"
UpperStr(name) ==
  CASE name = "Kaltwasser" -> "KALTWASSER"
    [] name = "Warmwasser" -> "WARMWASSER"
    [] name = "Heizung" -> "HEIZUNG"

\* a section header line: absent, exact, or padded and in upper case
HeaderStyles == {"none", "plain", "padded"}
HeaderLine(name, style) ==
  CASE style = "none" -> <<>>
    [] style = "plain" -> <<W(name), LF>>
    [] style = "padded" -> <<SP, W(UpperStr(name)), TAB, CR, LF>>

UnitOf(b) == IF b = 3 THEN "kWh" ELSE "m3"
\* the i-th dated value line of block b: "<year>: <value> <unit>"
DatedLine(b, i) ==
  <<D4(2026 - i), COLON, SP, Dec(IF i % 2 = 1 THEN "," ELSE ".", 10 * b + i),
    SP, Unit(UnitOf(b)), LF>>
RECURSIVE DatedLines(_, _)
DatedLines(b, k) == IF k = 0 THEN <<>> ELSE DatedLines(b, k - 1) \o DatedLine(b, k)

\* the average line of block b
AverageStyles == {"none", "property", "heating", "dated"}
AverageLine(b, style) ==
  CASE style = "none" -> <<>>
    [] style = "property" ->
         <<W("Durchschnitt"), SP, W("der Liegenschaft"), COLON, SP,
           Dec(",", 10 * b + 9), SP, Unit(UnitOf(b)), LF>>
    [] style = "heating" ->
         <<W("Heizung"), SP, W("auf Basis"), SP, W("Verbrauch"), COLON, SP,
           Dec(",", 10 * b + 8), SP, Unit(UnitOf(b)), LF>>
    [] style = "dated" ->
         <<W("Durchschnitt"), SP, W("der Liegenschaft"), SP, W("Dezember"), SP,
           D4(2025), COLON, SP, Dec(",", 10 * b + 7), SP, Unit(UnitOf(b)), LF>>

Blocks == [hdr : HeaderStyles, occ : 0..MaxOcc, avg : AverageStyles]
BlockText(b, blk) ==
  HeaderLine(BlockName(b), blk.hdr) \o DatedLines(b, blk.occ) \o AverageLine(b, blk.avg)

\* the month/year line
DateLines ==
  {<<>>,
   <<W("Dezember"), SP, D4(2025), LF>>,
   <<W("MAERZ"), LF, D4(2000), LF>>,
   <<W("Mai"), SP, D4(2100), LF>>,
   <<W("Augu{U+017F}t"), SP, D4(2025), LF>>,
   <<W("Januar"), SP, D4(1999), LF>>,
   <<W("Mai"), SP, D4(2101), LF>>,
   <<W("Dezember"), SP, D4(0), LF>>}

\* the text after the last block
Tails ==
  {<<>>,
   <<W("Falls Sie Fragen"), SP, W("haben"), LF, D4(2020), COLON, SP, Dec(",", 99),
     SP, Unit("m3"), LF, W("Durchschnitt"), COLON, SP, Dec(",", 98), SP, Unit("m3")>>}

Greeting == <<W("Ihre"), SP, W("Verbrauchswerte"), LF>>

DefaultDate == <<W("Dezember"), SP, D4(2025), LF>>
DefaultBlock(b) ==
  [hdr |-> "plain", occ |-> 2, avg |-> IF b = 3 THEN "heating" ELSE "property"]

Message(d, b, t) ==
  Greeting \o d \o BlockText(1, b[1]) \o BlockText(2, b[2]) \o BlockText(3, b[3]) \o t

\* every combination of present or absent headers, numbers of dated value
\* lines and present or absent property average lines
SectionMessages ==
  {Message(DefaultDate, b, <<>>) :
     b \in [1..3 -> [hdr : {"none", "plain"}, occ : 0..MaxOcc,
                     avg : {"none", "property"}]]}

\* every combination of average lines
AverageMessages ==
  {Message(DefaultDate, [i \in 1..3 |-> [DefaultBlock(i) EXCEPT !.avg = a[i]]], <<>>) :
     a \in [1..3 -> AverageStyles]}

\* every combination of header styles
HeaderMessages ==
  {Message(DefaultDate, [i \in 1..3 |-> [DefaultBlock(i) EXCEPT !.hdr = h[i]]], <<>>) :
     h \in [1..3 -> HeaderStyles]}

\* every month/year line with present or absent headers and every tail
DateMessages ==
  {Message(d, [i \in 1..3 |-> [DefaultBlock(i) EXCEPT !.hdr = h[i]]], t) :
     d \in DateLines, h \in [1..3 -> {"none", "plain"}], t \in Tails}

\* every heating block with every tail
TailMessages ==
  {Message(DefaultDate, [i \in 1..3 |-> IF i = 3 THEN blk ELSE DefaultBlock(i)], t) :
     blk \in Blocks, t \in Tails}

\* a note that names a unit stands before the values of the Kaltwasser block
UnitMessages ==
  {Greeting \o DefaultDate \o HeaderLine("Kaltwasser", "plain")
     \o <<W("Angaben in"), SP, Unit(u), LF>> \o DatedLines(1, 2)
     \o AverageLine(1, "property") \o BlockText(2, DefaultBlock(2))
     \o BlockText(3, DefaultBlock(3)) : u \in {"m3", "kWh"}}

RawMessages ==
  SectionMessages \cup AverageMessages \cup HeaderMessages \cup DateMessages
    \cup TailMessages \cup UnitMessages

\* ------------------------------------------------------------------------
\* src/scraper.py: HomeCaseScraper._extract_consumption_from_text
\* ------------------------------------------------------------------------
CONSUMPTION_EXTRACT_MAX_LENGTH == 3500

\* a marker test that ignores letter case
ContainsMarker_anycase(text) == \E i \in 1..Len(text) : WordAt(text, i, "verbrauchswerte")

\* "Verbrauchswerte" in text
ContainsMarker(text) == \E i \in 1..Len(text) : text[i] = W("Verbrauchswerte")

\* every blank to one space
BlankToSpace(text) == [k \in 1..Len(text) |-> IF text[k].t = "ws" THEN SP ELSE text[k]]

\* re.sub(r"\r\n?", "\n", text)
SubLineEndings(text) ==
  CrToLf(Select(text,
                SortedIdx({i \in 1..Len(text) :
                             ~(text[i] = LF /\ i > 1 /\ text[i - 1] = CR)},
                          1, Len(text))))

\* a substitution that replaces each blank by itself instead of each run
SubBlanks_each(text) == BlankToSpace(text)

\* re.sub(r"[ \t]+", " ", cleaned)
SubBlanks(text) ==
  BlankToSpace(Select(text,
                      SortedIdx({i \in 1..Len(text) :
                                   ~(text[i].t = "ws" /\ i > 1 /\ text[i - 1].t = "ws")},
                                1, Len(text))))

\* re.sub(r"\n{3,}", "\n\n", cleaned)
SubBlankLines(text) ==
  Select(text,
         SortedIdx({i \in 1..Len(text) :
                      ~(text[i] = LF /\ i > 2 /\ text[i - 1] = LF /\ text[i - 2] = LF)},
                   1, Len(text)))

Closers == {"falls sie fragen", "mit freundlichen", "viele gruesse", "bitte beachten"}

\* the lookahead (?=\n(?:Falls Sie Fragen|...)|\Z) holds after position e
CloserAhead(str, e) ==
  \/ e = Len(str)
  \/ /\ e + 2 <= Len(str)
     /\ str[e + 1] = LF
     /\ str[e + 2].t = "w"
     /\ FoldStr(str[e + 2].s) \in Closers

\* the positions where "Verbrauchswerte" matches under re.IGNORECASE
MarkerMatches(str) == {i \in 1..Len(str) : WordAt(str, i, "verbrauchswerte")}

\* group 1 of the match that starts at position i: the shortest stretch
\* after which the lookahead holds
LazyGroup(str, i) ==
  [found |-> TRUE, first |-> i,
   last |-> Min({e \in i..Len(str) : CloserAhead(str, e)})]

\* a search whose lookahead lacks the end-of-text alternative
FirstMatch_closer_only(str, matches) ==
  IF matches = {} \/ \A e \in Min(matches)..(Len(str) - 1) : ~CloserAhead(str, e)
  THEN [found |-> FALSE, first |-> 0, last |-> 0]
  ELSE LazyGroup(str, Min(matches))

FirstMatch(str, matches) ==
  IF matches = {} THEN [found |-> FALSE, first |-> 0, last |-> 0]
  ELSE LazyGroup(str, Min(matches))

\* re.search of (Verbrauchswerte.*?)(?=...) with DOTALL | IGNORECASE:
\* group 1 as [found, first, last]
PrimaryMatch(str) == FirstMatch(str, MarkerMatches(str))

\* cleaned.lower().find("verbrauchswerte") as a position (0 if absent)
LowerFind(str) ==
  MinOr({i \in 1..Len(str) : LowerTok(str[i]) = W("verbrauchswerte")}, 0)

\* cleaned[idx : idx + CONSUMPTION_EXTRACT_MAX_LENGTH]
Window(str, idx) ==
  SubSeq(str, idx,
         IF idx + CONSUMPTION_EXTRACT_MAX_LENGTH - 1 < Len(str)
         THEN idx + CONSUMPTION_EXTRACT_MAX_LENGTH - 1
         ELSE Len(str))

\* lines 239-241: the three substitutions in order
Normalization(text) == SubBlankLines(SubBlanks(SubLineEndings(text)))

\* lines 249-255: the value returned for the outcome match of the search and
\* the position idx (<<>> is None)
CaptureValue(str, match, idx) ==
  IF match.found THEN <<Strip(SubSeq(str, match.first, match.last))>>
  ELSE IF idx >= 1 THEN <<Strip(Window(str, idx))>>
  ELSE <<>>

CaptureOf(str) == CaptureValue(str, PrimaryMatch(str), LowerFind(str))

\* the extractor as a function of its argument
_extract_consumption_from_text(text) ==
  IF ~ContainsMarker(text) THEN <<>> ELSE CaptureOf(Normalization(text))

\* ------------------------------------------------------------------------
\* src/scraper.py: HomeCaseScraper._score_message_candidate
\* ------------------------------------------------------------------------
\* a word of k letters
Filler(k) == [t |-> "w", s |-> "x", n |-> k]

\* the number of characters of a token
CharLen(tok) ==
  IF tok.t = "w" /\ tok.n > 0 THEN tok.n
  ELSE IF tok.t = "d4" THEN 4
  ELSE IF tok.t = "dec" THEN (IF tok.n < 100 THEN 3 ELSE 4)
  ELSE Len(tok.s)

\* len(message_text)
RECURSIVE TextLen(_, _, _)
TextLen(str, lo, hi) ==
  IF lo > hi THEN 0
  ELSE IF lo = hi THEN CharLen(str[lo])
  ELSE TextLen(str, lo, (lo + hi) \div 2) + TextLen(str, (lo + hi) \div 2 + 1, hi)

\* re.search(keyword, message_text, re.IGNORECASE) adds 500
KeywordBonus(message_text, keyword) ==
  IF \E i \in 1..Len(message_text) : WordAt(message_text, i, LowerStr(keyword))
  THEN 500 ELSE 0

_score_message_candidate(message_text) ==
  TextLen(message_text, 1, Len(message_text))
  + KeywordBonus(message_text, "Kaltwasser")
  + KeywordBonus(message_text, "Warmwasser")
  + KeywordBonus(message_text, "Heizung")

\* ------------------------------------------------------------------------
\* src/scraper.py: HomeCaseScraper._deduplicate_and_limit
\* ------------------------------------------------------------------------
\* a < b for strings given as sequences of character codes
StrLess(a, b) ==
  \E k \in 1..Len(b) :
    /\ k <= Len(a) + 1
    /\ SubSeq(a, 1, k - 1) = SubSeq(b, 1, k - 1)
    /\ k = Len(a) + 1 \/ a[k] < b[k]

\* an order that puts the later of two candidates with equal timestamps first
Precedes_reversed_ties(cands, i, j) ==
  \/ StrLess(cands[j].ts, cands[i].ts)
  \/ cands[i].ts = cands[j].ts /\ i > j

\* candidate i stands before candidate j after
\* sort(key=lambda item: item[0], reverse=True), which is stable
Precedes(cands, i, j) ==
  \/ StrLess(cands[j].ts, cands[i].ts)
  \/ cands[i].ts = cands[j].ts /\ i < j

\* the index of the candidate that stands at position k after the sort
SortedAt(cands, k) ==
  CHOOSE i \in 1..Len(cands) :
    Cardinality({j \in 1..Len(cands) : Precedes(cands, j, i)}) = k - 1

\* candidates.sort(key=lambda item: item[0], reverse=True)
SortNewestFirst(cands) == [k \in 1..Len(cands) |-> cands[SortedAt(cands, k)]]

\* the first token of each whitespace run and every other token
RunStarts(message) ==
  {i \in 1..Len(message) : ~(IsSpace(message[i]) /\ i > 1 /\ IsSpace(message[i - 1]))}

\* every whitespace token to one space
SpaceOut(message) ==
  [k \in 1..Len(message) |-> IF IsSpace(message[k]) THEN SP ELSE message[k]]

\* a deduplication key that keeps the message as it is
NormalizedText_verbatim(message) == message

\* re.sub(r"\s+", " ", message).strip()
NormalizedText(message) ==
  Strip(SpaceOut(Select(message, SortedIdx(RunStarts(message), 1, Len(message)))))

\* ------------------------------------------------------------------------
\* Inputs of the text extractor
\* ------------------------------------------------------------------------
MaxLen == 4

\* the last member is a word longer than CONSUMPTION_EXTRACT_MAX_LENGTH
ExtractAlphabet ==
  {W("Verbrauchswerte"), W("VERBRAUCHSWERTE"), W("Falls Sie Fragen"),
   W("MIT FREUNDLICHEN"), W("Kaltwasser"), SP, TAB, LF, CR, Filler(3600)}

\* the texts of n tokens
TextsOfLen(n) == [1..n -> ExtractAlphabet]

\* the whitespace runs of n characters
RECURSIVE BlanksOfLen(_)
BlanksOfLen(n) ==
  IF n = 0 THEN {<<>>}
  ELSE {Append(t, c) : t \in BlanksOfLen(n - 1), c \in {SP, TAB, LF, CR}}

\* the keyword and a word with a whitespace run between them
SpacedTexts ==
  {<<W("Verbrauchswerte")>> \o t \o <<W("Kaltwasser")>> :
     t \in UNION {BlanksOfLen(n) : n \in 0..MaxLen}}

ExtractTexts == UNION {TextsOfLen(n) : n \in 0..MaxLen} \cup SpacedTexts

\* ------------------------------------------------------------------------
\* parse_message as a state machine
\* ------------------------------------------------------------------------
VARIABLES raw, pc, content_hash, month, year, message_date, sections, err, result,
          xtext, xpc, cleaned, extracted, fallback

VARIABLES page, hpos, best_message, best_score, hpc
VARIABLES given, candidates, limit, seen, messages, dpos, dpc
VARIABLES store, outbox, run, mpc, raw_messages, new_messages, mpos, exit_code, exc
VARIABLES batch, table, mailed, ppc, ppos, pnew, pexit

parseVars == <<raw, pc, content_hash, month, year, message_date, sections, err, result>>
extractVars == <<xtext, xpc, cleaned, extracted, fallback>>
htmlVars == <<page, hpos, best_message, best_score, hpc>>
dedupVars == <<given, candidates, limit, seen, messages, dpos, dpc>>
mainVars == <<store, outbox, run, mpc, raw_messages, new_messages, mpos, exit_code, exc>>
concVars == <<batch, table, mailed, ppc, ppos, pnew, pexit>>
vars == <<parseVars, extractVars, htmlVars, dedupVars, mainVars, concVars>>
outsideParse == <<extractVars, htmlVars, dedupVars, mainVars, concVars>>
outsideExtract == <<parseVars, htmlVars, dedupVars, mainVars, concVars>>
outsideHtml == <<parseVars, extractVars, dedupVars, mainVars, concVars>>
outsideDedup == <<parseVars, extractVars, htmlVars, mainVars, concVars>>
outsideMain == <<parseVars, extractVars, htmlVars, dedupVars, concVars>>
outsideConc == <<parseVars, extractVars, htmlVars, dedupVars, mainVars>>

NoDate == [year |-> 0, month |-> 0, day |-> 0]

ParseIdle ==
  /\ raw = <<>>
  /\ pc = "idle"
  /\ content_hash = <<>>
  /\ month = ""
  /\ year = 0
  /\ message_date = NoDate
  /\ sections = <<>>
  /\ err = <<>>
  /\ result = <<>>

ExtractIdle ==
  /\ xtext = <<>>
  /\ xpc = "idle"
  /\ cleaned = <<>>
  /\ extracted = <<>>
  /\ fallback = FALSE

HtmlIdle ==
  /\ page = <<>>
  /\ hpos = 0
  /\ best_message = <<>>
  /\ best_score = 0
  /\ hpc = "idle"

DedupIdle ==
  /\ given = <<>>
  /\ candidates = <<>>
  /\ limit = <<>>
  /\ seen = {}
  /\ messages = <<>>
  /\ dpos = 0
  /\ dpc = "idle"

MainIdle ==
  /\ store = <<>>
  /\ outbox = <<>>
  /\ run = 0
  /\ mpc = "idle"
  /\ raw_messages = <<>>
  /\ new_messages = <<>>
  /\ mpos = 0
  /\ exit_code = <<>>
  /\ exc = <<>>

ConcIdle ==
  /\ batch = <<>>
  /\ table = <<>>
  /\ mailed = <<>>
  /\ ppc = <<>>
  /\ ppos = <<>>
  /\ pnew = <<>>
  /\ pexit = <<>>

Init ==
  /\ ConcIdle
  /\ MainIdle
  /\ ExtractIdle
  /\ HtmlIdle
  /\ DedupIdle
  /\ raw \in RawMessages
  /\ pc = "start"
  /\ content_hash = <<>>
  /\ month = ""
  /\ year = 0
  /\ message_date = NoDate
  /\ sections = <<>>
  /\ err = <<>>
  /\ result = <<>>

\* lines 143-144: the month number and the message date
BuildDate(m, y) ==
  IF LowerStr(m) \notin DOMAIN MONTH_MAP
  THEN /\ pc' = "raised"
       /\ err' = <<Raise("KeyError", LowerStr(m), "").val>>
       /\ UNCHANGED message_date
  ELSE IF ~DateValid(y)
  THEN /\ pc' = "raised"
       /\ err' = <<Raise("ValueError", "year is out of range", "").val>>
       /\ UNCHANGED message_date
  ELSE /\ pc' = "sections"
       /\ message_date' = [year |-> y, month |-> MONTH_MAP[LowerStr(m)], day |-> 1]
       /\ UNCHANGED err

\* lines 139-144 for the outcome my of parse_month_year
HeaderOutcome(my) ==
  IF ~my.ok
  THEN /\ pc' = "raised"
       /\ err' = <<my.val>>
       /\ UNCHANGED <<month, year, message_date>>
  ELSE /\ month' = my.val.month
       /\ year' = my.val.year
       /\ BuildDate(my.val.month, my.val.year)

\* lines 135-144: content hash, month and year, message date
ParseHeader ==
  /\ pc = "start"
  /\ content_hash' = <<generate_content_hash(raw)>>
  /\ HeaderOutcome(parse_month_year(raw))
  /\ UNCHANGED <<raw, sections, result, outsideParse>>

\* an order that parses Warmwasser first
Categories_swapped == <<"Warmwasser", "Kaltwasser", "Heizung">>

\* the order of the three parse_consumption_section calls
Categories == <<"Kaltwasser", "Warmwasser", "Heizung">>

\* a try block that swallows the failure and goes on with an empty section
SectionOutcome_swallow(r) ==
  /\ sections' = Append(sections,
                        IF r.ok THEN r.val
                        ELSE [current_month |-> 0, previous_year |-> 0,
                              property_average |-> 0, unit |-> ""])
  /\ pc' = IF Len(sections) + 1 = 3 THEN "construct" ELSE "sections"
  /\ UNCHANGED err

\* one try block of lines 146-166 for the outcome r of the section parse
SectionOutcome(r) ==
  IF r.ok
  THEN /\ sections' = Append(sections, r.val)
       /\ pc' = IF Len(sections) + 1 = Len(Categories) THEN "construct" ELSE "sections"
       /\ UNCHANGED err
  ELSE /\ pc' = "raised"
       /\ err' = <<r.val>>
       /\ UNCHANGED sections

\* lines 146-166: the next consumption type
ParseSection ==
  /\ pc = "sections"
  /\ SectionOutcome(parse_consumption_section(raw, Categories[Len(sections) + 1]))
  /\ UNCHANGED <<raw, content_hash, month, year, message_date, result, outsideParse>>

\* lines 168-177: construction and validation of the ParsedMessage
Construct ==
  /\ pc = "construct"
  /\ IF validate_year(year)
     THEN /\ pc' = "returned"
          /\ result' = <<[month |-> month, year |-> year, message_date |-> message_date,
                          kaltwasser |-> sections[1], warmwasser |-> sections[2],
                          heizung |-> sections[3], raw_message |-> raw,
                          content_hash |-> content_hash[1]]>>
          /\ UNCHANGED err
     ELSE /\ pc' = "raised"
          /\ err' = <<Raise("ValidationError", "Year must be between 2000 and 2100", "").val>>
          /\ UNCHANGED result
  /\ UNCHANGED <<raw, content_hash, month, year, message_date, sections, outsideParse>>

Next == ParseHeader \/ ParseSection \/ Construct

Spec == Init /\ [][Next]_vars

\* ------------------------------------------------------------------------
\* _extract_consumption_from_text as a state machine
\* ------------------------------------------------------------------------
InitExtract ==
  /\ ConcIdle
  /\ MainIdle
  /\ ParseIdle
  /\ HtmlIdle
  /\ DedupIdle
  /\ xtext \in ExtractTexts
  /\ xpc = "start"
  /\ cleaned = <<>>
  /\ extracted = <<>>
  /\ fallback = FALSE

\* lines 236-237: the marker test
ExtractGate ==
  /\ xpc = "start"
  /\ xpc' = IF ContainsMarker(xtext) THEN "normalize" ELSE "returned"
  /\ UNCHANGED <<xtext, cleaned, extracted, fallback, outsideExtract>>

\* lines 239-241: normalization
ExtractNormalize ==
  /\ xpc = "normalize"
  /\ cleaned' = SubBlankLines(SubBlanks(SubLineEndings(xtext)))
  /\ xpc' = "capture"
  /\ UNCHANGED <<xtext, extracted, fallback, outsideExtract>>

\* lines 243-255 for the outcome match of the search and the position idx
CaptureOutcome(match, idx) ==
  IF match.found
  THEN /\ extracted' = <<Strip(SubSeq(cleaned, match.first, match.last))>>
       /\ UNCHANGED fallback
  ELSE IF idx >= 1
  THEN /\ extracted' = <<Strip(Window(cleaned, idx))>>
       /\ fallback' = TRUE
  ELSE /\ extracted' = <<>>
       /\ UNCHANGED fallback

\* lines 243-255: the closer-anchored capture and the fallback window
ExtractCapture ==
  /\ xpc = "capture"
  /\ CaptureOutcome(PrimaryMatch(cleaned), LowerFind(cleaned))
  /\ xpc' = "returned"
  /\ UNCHANGED <<xtext, cleaned, outsideExtract>>

NextExtract == ExtractGate \/ ExtractNormalize \/ ExtractCapture

SpecExtract == InitExtract /\ [][NextExtract]_vars

\* ------------------------------------------------------------------------
\* _find_latest_consumption_message_from_html as a state machine
\* ------------------------------------------------------------------------
MaxCands == 3

\* the texts a page can hold as candidates
HtmlTexts ==
  {<<W("Kaltwasser")>>,
   <<W("Verbrauchswerte"), SP, W("Kaltwasser")>>,
   <<W("Verbrauchswerte"), SP, W("KALTWASSER")>>,
   <<W("Verbrauchswerte"), SP, Filler(510)>>,
   <<W("Verbrauchswerte"), LF, W("Kaltwasser"), LF, W("Warmwasser"), LF, W("Heizung")>>,
   <<W("Verbrauchswerte"), SP, Filler(1000)>>,
   <<W("Verbrauchswerte"), SP, Filler(1600)>>,
   <<W("Heizung"), SP, W("Verbrauchswerte"), LF, W("Falls Sie Fragen")>>}

RECURSIVE PagesOfLen(_)
PagesOfLen(n) ==
  IF n = 0 THEN {<<>>}
  ELSE {Append(p, c) : p \in PagesOfLen(n - 1), c \in HtmlTexts}

\* the candidates _collect_html_candidates gathers from the page
Pages == UNION {PagesOfLen(n) : n \in 0..MaxCands}

InitHtml ==
  /\ ConcIdle
  /\ MainIdle
  /\ ParseIdle
  /\ ExtractIdle
  /\ DedupIdle
  /\ page \in Pages
  /\ hpos = 0
  /\ best_message = <<>>
  /\ best_score = 0
  /\ hpc = "request"

\* lines 419-432: the request; an HTTP error or a redirect to the login page
\* raises
HtmlLoad ==
  /\ hpc = "request"
  /\ \E outcome \in {"ok", "http_error", "login_redirect"} :
       IF outcome = "ok"
       THEN /\ hpc' = "scan"
            /\ hpos' = 1
            /\ best_score' = -1
       ELSE /\ hpc' = "raised"
            /\ UNCHANGED <<hpos, best_score>>
  /\ UNCHANGED <<page, best_message, outsideHtml>>

\* a comparison that lets a later candidate with an equal score win
IsBetter_or_equal(score, best) == score >= best

\* line 441
IsBetter(score, best) == score > best

\* lines 440-443 for the score of the extracted text
ScoreOutcome(message_text, score) ==
  IF IsBetter(score, best_score)
  THEN best_score' = score /\ best_message' = message_text
  ELSE UNCHANGED <<best_score, best_message>>

\* lines 437-443 for the outcome of the extraction
ScanOutcome(message_text) ==
  IF message_text = <<>>
  THEN UNCHANGED <<best_score, best_message>>
  ELSE ScoreOutcome(message_text, _score_message_candidate(message_text[1]))

\* lines 436-443: one pass of the loop over the candidates
HtmlScan ==
  /\ hpc = "scan"
  /\ hpos <= Len(page)
  /\ ScanOutcome(_extract_consumption_from_text(page[hpos]))
  /\ hpos' = hpos + 1
  /\ UNCHANGED <<page, hpc, outsideHtml>>

\* line 445
HtmlReturn ==
  /\ hpc = "scan"
  /\ hpos > Len(page)
  /\ hpc' = "returned"
  /\ UNCHANGED <<page, hpos, best_message, best_score, outsideHtml>>

NextHtml == HtmlLoad \/ HtmlScan \/ HtmlReturn

SpecHtml == InitHtml /\ [][NextHtml]_vars

\* ------------------------------------------------------------------------
\* _deduplicate_and_limit as a state machine
\* ------------------------------------------------------------------------
MaxCandidates == 3
MaxLimit == 2

\* timestamps "", "10" and "2" as sequences of character codes
Timestamps == {<<>>, <<1, 0>>, <<2>>}

\* extracted messages; the first two differ in whitespace only
DedupMessages ==
  {<<W("Verbrauchswerte"), SP, W("Kaltwasser")>>,
   <<W("Verbrauchswerte"), LF, W("Kaltwasser")>>,
   <<W("Verbrauchswerte"), SP, W("Warmwasser")>>}

RECURSIVE CandidatesOfLen(_)
CandidatesOfLen(n) ==
  IF n = 0 THEN {<<>>}
  ELSE {Append(c, [ts |-> t, msg |-> m]) :
          c \in CandidatesOfLen(n - 1), t \in Timestamps, m \in DedupMessages}

\* the limit: None or a count
Limits == {<<>>} \cup {<<n>> : n \in 0..MaxLimit}

InitDedup ==
  /\ ConcIdle
  /\ MainIdle
  /\ ParseIdle
  /\ ExtractIdle
  /\ HtmlIdle
  /\ given \in UNION {CandidatesOfLen(n) : n \in 0..MaxCandidates}
  /\ candidates = given
  /\ limit \in Limits
  /\ seen = {}
  /\ messages = <<>>
  /\ dpos = 0
  /\ dpc = "start"

\* lines 346-354: the empty case, the sort in place and the loop variables
DedupStart ==
  /\ dpc = "start"
  /\ IF candidates = <<>>
     THEN /\ dpc' = "returned"
          /\ UNCHANGED <<candidates, dpos>>
     ELSE /\ candidates' = SortNewestFirst(candidates)
          /\ dpos' = 1
          /\ dpc' = "loop"
  /\ UNCHANGED <<given, limit, seen, messages, outsideDedup>>

\* lines 356-362 for the message of the candidate and its normalized text
DedupOutcome(message, normalized) ==
  IF normalized \in seen
  THEN /\ dpc' = "loop"
       /\ UNCHANGED <<seen, messages>>
  ELSE /\ seen' = seen \cup {normalized}
       /\ messages' = Append(messages, message)
       /\ dpc' = IF limit # <<>> /\ Len(messages) + 1 >= limit[1]
                 THEN "returned" ELSE "loop"

\* lines 355-362: one pass of the loop
DedupStep ==
  /\ dpc = "loop"
  /\ dpos <= Len(candidates)
  /\ DedupOutcome(candidates[dpos].msg, NormalizedText(candidates[dpos].msg))
  /\ dpos' = dpos + 1
  /\ UNCHANGED <<given, candidates, limit, outsideDedup>>

\* line 363 after the last candidate
DedupReturn ==
  /\ dpc = "loop"
  /\ dpos > Len(candidates)
  /\ dpc' = "returned"
  /\ UNCHANGED <<given, candidates, limit, seen, messages, dpos, outsideDedup>>

NextDedup == DedupStart \/ DedupStep \/ DedupReturn

SpecDedup == InitDedup /\ [][NextDedup]_vars

\* ------------------------------------------------------------------------
\* main with the message table and the mail server, run after run
\* ------------------------------------------------------------------------
MaxRuns == 2
MaxFetched == 2

\* the messages the portal holds: two that parse, of different months, and
\* one without a Heizung section
PortalMessages ==
  {Message(DefaultDate, [i \in 1..3 |-> DefaultBlock(i)], <<>>),
   Message(<<W("MAERZ"), LF, D4(2000), LF>>, [i \in 1..3 |-> DefaultBlock(i)], <<>>),
   Message(DefaultDate, [i \in 1..3 |-> [DefaultBlock(i) EXCEPT !.hdr =
                                           IF i = 3 THEN "none" ELSE "plain"]], <<>>)}

\* the lists find_consumption_messages returns: no text twice
FetchedOfLen(n) ==
  {f \in [1..n -> PortalMessages] : \A i, j \in 1..n : i # j => f[i] # f[j]}
Fetched == UNION {FetchedOfLen(n) : n \in 0..MaxFetched}

InitMain ==
  /\ ConcIdle
  /\ ParseIdle
  /\ ExtractIdle
  /\ HtmlIdle
  /\ DedupIdle
  /\ MainIdle

\* database.py check_exists: SELECT 1 ... WHERE content_hash = %s
check_exists(rows, hash) == \E i \in 1..Len(rows) : rows[i].content_hash = hash

\* database.py save_message: the INSERT under the UNIQUE constraint of
\* content_hash; created_at is the time of the run
save_message(rows, hash, date, now) ==
  IF \E i \in 1..Len(rows) : rows[i].content_hash = hash
  THEN Raise("ValueError", "Message already exists", "")
  ELSE Ok(Append(rows, [id |-> Len(rows) + 1, content_hash |-> hash,
                        message_date |-> date, created_at |-> now]))

\* main.py lines 145-150: both handlers return 1
Fail(e) ==
  /\ exc' = <<e>>
  /\ exit_code' = <<1>>
  /\ mpc' = "exited"

\* a return statement of main
Return(code) ==
  /\ exit_code' = <<code>>
  /\ mpc' = "exited"
  /\ UNCHANGED exc

\* main.py lines 64-71: a run starts and validates the configuration
MainValidate ==
  /\ mpc \in {"idle", "exited"}
  /\ run < MaxRuns
  /\ run' = run + 1
  /\ raw_messages' = <<>>
  /\ new_messages' = <<>>
  /\ mpos' = 0
  /\ \E valid \in BOOLEAN :
       IF valid
       THEN mpc' = "init_db" /\ exit_code' = <<>> /\ exc' = <<>>
       ELSE Fail("ValueError")
  /\ UNCHANGED <<store, outbox, outsideMain>>

\* main.py line 75: init_db creates the schema and the table if missing
MainInitDb ==
  /\ mpc = "init_db"
  /\ \E connected \in BOOLEAN :
       IF connected
       THEN mpc' = "scrape" /\ UNCHANGED <<exit_code, exc>>
       ELSE Fail("OperationalError")
  /\ UNCHANGED <<store, outbox, run, raw_messages, new_messages, mpos, outsideMain>>

\* main.py lines 86-93 for the list fetched
ScrapeOutcome(fetched) ==
  /\ raw_messages' = fetched
  /\ IF fetched = <<>>
     THEN Return(2) /\ UNCHANGED mpos
     ELSE mpc' = "loop" /\ mpos' = 1 /\ UNCHANGED <<exit_code, exc>>

\* main.py lines 79-93: login, navigation and find_consumption_messages,
\* which raise or return a list
MainScrape ==
  /\ mpc = "scrape"
  /\ \/ \E fetched \in Fetched : ScrapeOutcome(fetched)
     \/ \E e \in {"LoginError", "HTTPError"} :
          Fail(e) /\ UNCHANGED <<raw_messages, mpos>>
  /\ UNCHANGED <<store, outbox, run, new_messages, outsideMain>>

\* a skip that still reports the message as new
SkipOutcome_notify(parsed) ==
  /\ mpos' = mpos + 1
  /\ new_messages' = Append(new_messages, parsed)
  /\ UNCHANGED <<store, mpc, exit_code, exc>>

\* main.py lines 103-109: the message is already stored
SkipOutcome(parsed) ==
  /\ mpos' = mpos + 1
  /\ UNCHANGED <<store, new_messages, mpc, exit_code, exc>>

\* main.py lines 113-119 for the outcome saved of save_message
SaveOutcome(parsed, saved) ==
  IF saved.ok
  THEN /\ store' = saved.val
       /\ new_messages' = Append(new_messages, parsed)
       /\ mpos' = mpos + 1
       /\ UNCHANGED <<mpc, exit_code, exc>>
  ELSE Fail(saved.val.type) /\ UNCHANGED <<store, new_messages, mpos>>

\* main.py lines 103-119 for a parsed message; the database answers the
\* check and the insert or fails
StoreOutcome(parsed, checked, inserted) ==
  IF ~checked
  THEN Fail("OperationalError") /\ UNCHANGED <<store, new_messages, mpos>>
  ELSE IF check_exists(store, parsed.content_hash)
  THEN SkipOutcome(parsed)
  ELSE IF ~inserted
  THEN Fail("OperationalError") /\ UNCHANGED <<store, new_messages, mpos>>
  ELSE SaveOutcome(parsed, save_message(store, parsed.content_hash,
                                        parsed.message_date, run))

\* main.py lines 97-119 for the outcome r of parse_message
LoopOutcome(r) ==
  IF ~r.ok
  THEN Fail(r.val.type) /\ UNCHANGED <<store, new_messages, mpos>>
  ELSE \E checked, inserted \in BOOLEAN : StoreOutcome(r.val, checked, inserted)

\* main.py lines 95-119: one pass of the loop over raw_messages
MainLoop ==
  /\ mpc = "loop"
  /\ mpos <= Len(raw_messages)
  /\ LoopOutcome(parse_message(raw_messages[mpos]))
  /\ UNCHANGED <<outbox, run, raw_messages, outsideMain>>

\* main.py lines 121-128: nothing new, or on to the notifications
MainCheckNew ==
  /\ mpc = "loop"
  /\ mpos > Len(raw_messages)
  /\ IF new_messages = <<>>
     THEN Return(2) /\ UNCHANGED mpos
     ELSE mpc' = "emails" /\ mpos' = 1 /\ UNCHANGED <<exit_code, exc>>
  /\ UNCHANGED <<store, outbox, run, raw_messages, new_messages, outsideMain>>

\* a send whose failure is logged and not raised
SendOutcome_swallow(parsed, sent) ==
  /\ outbox' = IF sent THEN Append(outbox, [message |-> parsed.content_hash, run |-> run])
               ELSE outbox
  /\ mpos' = mpos + 1
  /\ UNCHANGED <<mpc, exit_code, exc>>

\* main.py lines 134-138 and email.py send_email, which raises when the
\* mail server does not take the message
SendOutcome(parsed, sent) ==
  IF sent
  THEN /\ outbox' = Append(outbox, [message |-> parsed.content_hash, run |-> run])
       /\ mpos' = mpos + 1
       /\ UNCHANGED <<mpc, exit_code, exc>>
  ELSE Fail("SMTPException") /\ UNCHANGED <<outbox, mpos>>

\* main.py lines 133-138: one pass of the loop over new_messages
MainSend ==
  /\ mpc = "emails"
  /\ mpos <= Len(new_messages)
  /\ \E sent \in BOOLEAN : SendOutcome(new_messages[mpos], sent)
  /\ UNCHANGED <<store, run, raw_messages, new_messages, outsideMain>>

\* main.py lines 140-143
MainReturn ==
  /\ mpc = "emails"
  /\ mpos > Len(new_messages)
  /\ Return(0)
  /\ UNCHANGED <<store, outbox, run, raw_messages, new_messages, mpos, outsideMain>>

NextMain ==
  MainValidate \/ MainInitDb \/ MainScrape \/ MainLoop \/ MainCheckNew \/ MainSend
    \/ MainReturn

SpecMain == InitMain /\ [][NextMain]_vars

\* ------------------------------------------------------------------------
\* two runs of main at the same time over one message table; the database
\* and the mail server answer every call, and every call is one step
\* ------------------------------------------------------------------------
MaxBatch == 2
Runs == {1, 2}

\* messages of three months that parse
ParsingMessages ==
  {Message(d, [i \in 1..3 |-> DefaultBlock(i)], <<>>) :
     d \in {DefaultDate, <<W("MAERZ"), LF, D4(2000), LF>>, <<W("Mai"), SP, D4(2100), LF>>}}

\* the lists both runs fetched: no text twice
Batches ==
  UNION {{f \in [1..n -> ParsingMessages] : \A i, j \in 1..n : i # j => f[i] # f[j]} :
           n \in 1..MaxBatch}

\* both runs have fetched the same list and enter the loop of line 95
InitConc ==
  /\ ParseIdle
  /\ ExtractIdle
  /\ HtmlIdle
  /\ DedupIdle
  /\ MainIdle
  /\ batch \in Batches
  /\ table = <<>>
  /\ mailed = <<>>
  /\ ppc = [p \in Runs |-> "check"]
  /\ ppos = [p \in Runs |-> 1]
  /\ pnew = [p \in Runs |-> <<>>]
  /\ pexit = [p \in Runs |-> <<>>]

\* run p returns code
ConcExit(p, code) ==
  /\ ppc' = [ppc EXCEPT ![p] = "exited"]
  /\ pexit' = [pexit EXCEPT ![p] = <<code>>]

\* main.py lines 97-109 in run p for the outcome r of parse_message
ConcCheckOutcome(p, r) ==
  IF ~r.ok
  THEN ConcExit(p, 1) /\ UNCHANGED ppos
  ELSE IF check_exists(table, r.val.content_hash)
  THEN ppos' = [ppos EXCEPT ![p] = @ + 1] /\ UNCHANGED <<ppc, pexit>>
  ELSE ppc' = [ppc EXCEPT ![p] = "save"] /\ UNCHANGED <<ppos, pexit>>

\* main.py lines 95-109: run p parses the next message and asks check_exists
ConcCheck(p) ==
  /\ ppc[p] = "check"
  /\ ppos[p] <= Len(batch)
  /\ ConcCheckOutcome(p, parse_message(batch[ppos[p]]))
  /\ UNCHANGED <<batch, table, mailed, pnew, outsideConc>>

\* main.py lines 113-119 in run p for the outcome saved of save_message
ConcSaveOutcome(p, parsed, saved) ==
  IF saved.ok
  THEN /\ table' = saved.val
       /\ pnew' = [pnew EXCEPT ![p] = Append(@, parsed)]
       /\ ppos' = [ppos EXCEPT ![p] = @ + 1]
       /\ ppc' = [ppc EXCEPT ![p] = "check"]
       /\ UNCHANGED pexit
  ELSE ConcExit(p, 1) /\ UNCHANGED <<table, pnew, ppos>>

\* main.py lines 113-119 in run p for the parsed message
ConcSaveParsed(p, parsed) ==
  ConcSaveOutcome(p, parsed,
                  save_message(table, parsed.content_hash, parsed.message_date, p))

\* main.py lines 113-119: run p calls save_message
ConcSave(p) ==
  /\ ppc[p] = "save"
  /\ ConcSaveParsed(p, parse_message(batch[ppos[p]]).val)
  /\ UNCHANGED <<batch, mailed, outsideConc>>

\* main.py lines 121-128 in run p
ConcCheckNew(p) ==
  /\ ppc[p] = "check"
  /\ ppos[p] > Len(batch)
  /\ IF pnew[p] = <<>>
     THEN ConcExit(p, 2) /\ UNCHANGED ppos
     ELSE /\ ppc' = [ppc EXCEPT ![p] = "emails"]
          /\ ppos' = [ppos EXCEPT ![p] = 1]
          /\ UNCHANGED pexit
  /\ UNCHANGED <<batch, table, mailed, pnew, outsideConc>>

\* main.py lines 133-138: run p sends the email of its next new message
ConcSend(p) ==
  /\ ppc[p] = "emails"
  /\ ppos[p] <= Len(pnew[p])
  /\ mailed' = Append(mailed, [message |-> pnew[p][ppos[p]].content_hash, run |-> p])
  /\ ppos' = [ppos EXCEPT ![p] = @ + 1]
  /\ UNCHANGED <<batch, table, ppc, pnew, pexit, outsideConc>>

\* main.py lines 140-143 in run p
ConcReturn(p) ==
  /\ ppc[p] = "emails"
  /\ ppos[p] > Len(pnew[p])
  /\ ConcExit(p, 0)
  /\ UNCHANGED <<batch, table, mailed, ppos, pnew, outsideConc>>

NextConc ==
  \E p \in Runs :
    ConcCheck(p) \/ ConcSave(p) \/ ConcCheckNew(p) \/ ConcSend(p) \/ ConcReturn(p)

SpecConc == InitConc /\ [][NextConc]_vars

\* ------------------------------------------------------------------------
\* Properties of the message parser (specification Spec)
\* ------------------------------------------------------------------------
Terminated == pc \in {"returned", "raised"}
RawLines == SplitLines(ReplaceNewlines(raw))

\* the stripped line consists, up to letter case, of name alone
IsNameOnly(stripped, name) ==
  /\ Len(stripped) = 1
  /\ stripped[1].t = "w"
  /\ LowerStr(stripped[1].s) = LowerStr(name)

\* the line consists, up to surrounding whitespace and letter case, of name
ExactHeaderLine(line, name) == IsNameOnly(Strip(line), name)

\* the stripped line starts, up to letter case, with the closing phrase
IsClosing(stripped) ==
  /\ stripped # <<>>
  /\ stripped[1].t = "w"
  /\ LowerStr(stripped[1].s) = "falls sie fragen"

EndMarkerLine(line) == IsClosing(Strip(line))

\* the line starts with "Heizung auf Basis" and carries a value
HeatingAverageLine(line) ==
  /\ Len(line) >= 4
  /\ line[1].t = "w" /\ LowerStr(line[1].s) = "heizung"
  /\ line[2] = SP
  /\ line[3].t = "w" /\ LowerStr(line[3].s) = "auf basis"
  /\ \E c \in 4..Len(line) : ValueAfterColon(line, c)

\* the value of a heating average line
HeatingAverageValue(line) ==
  line[SkipSpace(line, Min({c \in 4..Len(line) : ValueAfterColon(line, c)}) + 1)].n

\* the line mentions an average
MentionsAverage(line) ==
  \/ \E i \in 1..Len(line) : line[i].t = "w" /\ LowerStr(line[i].s) = "durchschnitt"
  \/ \E i \in 1..(Len(line) - 2) :
       /\ line[i].t = "w" /\ LowerStr(line[i].s) = "heizung"
       /\ line[i + 2].t = "w" /\ LowerStr(line[i + 2].s) = "auf basis"

\* line j of lines is the heating average line of the message: the first line
\* that mentions an average after the first Heizung header line, with no
\* other header line and no closing line in between
IsHeatingAverageOf(lines, j) ==
  /\ HeatingAverageLine(lines[j])
  /\ \E h \in 1..(j - 1) :
       /\ ExactHeaderLine(lines[h], "Heizung")
       /\ \A g \in 1..(h - 1) : ~ExactHeaderLine(lines[g], "Heizung")
       /\ \A k \in (h + 1)..(j - 1) :
            /\ ~ExactHeaderLine(lines[k], "Kaltwasser")
            /\ ~ExactHeaderLine(lines[k], "Warmwasser")
            /\ ~EndMarkerLine(lines[k])
            /\ ~MentionsAverage(lines[k])

HeizungAttempted ==
  \/ Len(sections) = 3
  \/ pc = "raised" /\ Len(sections) = 2

HeaderIsFullLineMatch(lines) ==
  /\ \A j \in 1..Len(lines) :
       IsHeatingAverageOf(lines, j) =>
         /\ pc = "raised" =>
              err[1].msg \notin {"Could not find section",
                                 "Could not parse content for",
                                 "Could not find property average for"}
         /\ Len(sections) = 3 =>
              sections[3].property_average = HeatingAverageValue(lines[j])
  /\ (\A i \in 1..Len(lines) : ~ExactHeaderLine(lines[i], "Heizung")) =>
       /\ pc = "raised"
       /\ err[1] = [type |-> "ValueError", msg |-> "Could not find section",
                    name |-> "Heizung"]

\* C1: a line is a section header or boundary only when it equals a header
\* name in full.  A heating average line "Heizung auf Basis ...: <value>
\* <unit>" begins with a header name but neither ends nor starts a section:
\* it stays in the Heizung section, so the Heizung parse does not fail for a
\* missing average or empty section and reports the value of that line as
\* property_average; and without a line that equals "Heizung" in full the
\* Heizung section is not found, whatever lines begin with that word.
C1_HeaderIsFullLineMatch == HeizungAttempted => HeaderIsFullLineMatch(RawLines)

HeatingAverageReported(lines) ==
  \E j \in 1..Len(lines) :
    /\ IsHeatingAverageOf(lines, j)
    /\ result[1].heizung.property_average = HeatingAverageValue(lines[j])

C1_Witness == pc = "returned" /\ HeatingAverageReported(RawLines)

\* the month/year steps have succeeded: only then is message_date set
HeaderDone == message_date # NoDate

InRange(y) == 2000 <= y /\ y <= 2100

\* the month/year lookup with outcome my, the year check and the three
\* section parses of text all succeed
StepsOk(text, my) ==
  /\ my.ok
  /\ LowerStr(my.val.month) \in DOMAIN MONTH_MAP
  /\ InRange(my.val.year)
  /\ parse_consumption_section(text, "Kaltwasser").ok
  /\ parse_consumption_section(text, "Warmwasser").ok
  /\ parse_consumption_section(text, "Heizung").ok

\* the record holds the outcome of each of the three section parses
RecordComplete(text, rec) ==
  /\ rec.kaltwasser = parse_consumption_section(text, "Kaltwasser").val
  /\ rec.warmwasser = parse_consumption_section(text, "Warmwasser").val
  /\ rec.heizung = parse_consumption_section(text, "Heizung").val

AllOrNothing(text, my) ==
  IF pc = "returned"
  THEN /\ StepsOk(text, my)
       /\ result # <<>>
       /\ RecordComplete(text, result[1])
  ELSE /\ result = <<>>
       /\ ~StepsOk(text, my) => pc = "raised" /\ err # <<>>

\* C2: parse_message returns a record only if the month/year lookup, the
\* year check and all three section parses succeeded, and the record then
\* holds the three parsed sections; if any of these steps fails the call
\* ends raised with an error and without any record.
C2_AllOrNothing ==
  /\ ~Terminated => result = <<>>
  /\ Terminated => AllOrNothing(raw, parse_month_year(raw))

\* a failure of the third section after two parsed sections, with no record
C2_Witness ==
  /\ pc = "raised"
  /\ Len(sections) = 2
  /\ result = <<>>
  /\ err[1].name = "Heizung"

\* the position in the order Kaltwasser, Warmwasser, Heizung of the first
\* category whose section cannot be parsed (0 if all can)
FirstFailing(text) ==
  IF ~parse_consumption_section(text, "Kaltwasser").ok THEN 1
  ELSE IF ~parse_consumption_section(text, "Warmwasser").ok THEN 2
  ELSE IF ~parse_consumption_section(text, "Heizung").ok THEN 3
  ELSE 0

CategoryAt(k) ==
  CASE k = 1 -> "Kaltwasser" [] k = 2 -> "Warmwasser" [] k = 3 -> "Heizung"

\* the parse stopped at category k: the error names it and only the
\* categories before it were parsed
StopsAt(k) ==
  k # 0 =>
    /\ pc = "raised"
    /\ err[1].name = CategoryAt(k)
    /\ Len(sections) = k - 1
    /\ result = <<>>

\* no line of lines is a header line of name
LacksHeader(lines, name) == \A i \in 1..Len(lines) : ~ExactHeaderLine(lines[i], name)

WarmwasserNotFound ==
  /\ err[1] = [type |-> "ValueError", msg |-> "Could not find section",
               name |-> "Warmwasser"]
  /\ Len(sections) = 1

\* C3 as amended: once the month/year steps have succeeded the sections are
\* parsed in the order Kaltwasser, Warmwasser, Heizung up to the first
\* failure: the error names the first category whose section cannot be
\* parsed and no later category is parsed.  A message without a Warmwasser
\* header line always fails without a record; when the month/year steps and
\* the Kaltwasser parse succeed, the error names Warmwasser and nothing is
\* constructed for Warmwasser or Heizung.
C3_StopsAtFirstFailure ==
  Terminated =>
    /\ HeaderDone => StopsAt(FirstFailing(raw))
    /\ LacksHeader(RawLines, "Warmwasser") =>
         /\ pc = "raised"
         /\ result = <<>>
         /\ (HeaderDone /\ parse_consumption_section(raw, "Kaltwasser").ok) =>
              WarmwasserNotFound

\* a message without a Warmwasser header line whose Kaltwasser section was
\* parsed before the failure
C3_Witness ==
  /\ pc = "raised"
  /\ LacksHeader(RawLines, "Warmwasser")
  /\ WarmwasserNotFound
  /\ ~parse_consumption_section(raw, "Heizung").ok

\* C3 as stated: the error names the first category whose section cannot be
\* parsed and no later category is parsed; every message without a
\* Warmwasser header line fails with an error naming Warmwasser and no
\* ConsumptionData is constructed.
C3_Original ==
  Terminated =>
    /\ HeaderDone => StopsAt(FirstFailing(raw))
    /\ LacksHeader(RawLines, "Warmwasser") =>
         /\ pc = "raised"
         /\ err[1].name = "Warmwasser"
         /\ sections = <<>>

\* category k has been attempted
Attempted(k) ==
  /\ HeaderDone
  /\ k <= Len(sections) \/ (pc = "raised" /\ k = Len(sections) + 1)

\* the value of the occurrence "<year>: <decimal> <unit>" at position p
OccurrenceValue(str, p) == str[SkipSpace(str, p + 2)].n

\* with the occurrences occ of the section text of category k in text order
FirstTwoOccurrences(k, section_text, occ) ==
  IF Len(occ) < 2
  THEN /\ pc = "raised"
       /\ Len(sections) = k - 1
       /\ err[1].name = CategoryAt(k)
  ELSE /\ pc = "raised" /\ Len(sections) = k - 1 =>
            err[1].msg # "Could not find both current month and previous year values for"
       /\ k <= Len(sections) =>
            /\ sections[k].current_month = OccurrenceValue(section_text, occ[1])
            /\ sections[k].previous_year = OccurrenceValue(section_text, occ[2])

OccurrencesIn(section_text) ==
  SortedIdx(CURRENT_VALUE_PATTERN(section_text), 1, Len(section_text))

SectionOccurrences(k, ext) ==
  ext.ok => FirstTwoOccurrences(k, ext.val, OccurrencesIn(ext.val))

\* C4: when the parse has ended, for every attempted category whose section
\* text is found, the first
\* occurrence of "<year>: <decimal> <unit>" in the section text gives
\* current_month and the second gives previous_year, any further occurrence
\* being ignored; with fewer than two occurrences the parse fails with an
\* error naming the section.
C4_FirstTwoOccurrences ==
  Terminated =>
    \A k \in 1..3 :
      Attempted(k) => SectionOccurrences(k, _extract_section_text(raw, CategoryAt(k)))

ThreeOccurrences(k, ext) ==
  /\ ext.ok
  /\ Len(OccurrencesIn(ext.val)) >= 3
  /\ sections[k].previous_year = OccurrenceValue(ext.val, OccurrencesIn(ext.val)[2])
  /\ sections[k].previous_year # OccurrenceValue(ext.val, OccurrencesIn(ext.val)[3])

\* a parsed section with three occurrences, the third of which is ignored
C4_Witness ==
  /\ pc = "returned"
  /\ \E k \in 1..3 : ThreeOccurrences(k, _extract_section_text(raw, CategoryAt(k)))

\* the year the month/year pattern matches in text
MatchedYear(text) == text[SkipSpace(text, Min(MONTH_YEAR_PATTERN(text)) + 1)].n

\* C5: every returned record has a year between 2000 and 2100, and every
\* message whose matched year lies outside that range ends raised without a
\* record.
C5_YearInRange ==
  /\ pc = "returned" => InRange(result[1].year)
  /\ (Terminated /\ MONTH_YEAR_PATTERN(raw) # {}) =>
       (~InRange(MatchedYear(raw)) => pc = "raised" /\ result = <<>>)

\* the year check has rejected the year 2101 after all sections were parsed
C5_Witness ==
  /\ pc = "raised"
  /\ MONTH_YEAR_PATTERN(raw) # {}
  /\ MatchedYear(raw) = 2101
  /\ Len(sections) = 3
  /\ err[1].type = "ValidationError"

\* C6: every returned record has message_date equal to day 1 of its own year
\* and of the month whose ordinal the month table gives for its month name,
\* looked up without regard to letter case; and the month lookup fails for
\* no month name the month/year pattern matches.
C6_MonthLookupNeverFails ==
  /\ pc = "returned" =>
       /\ LowerStr(result[1].month) \in DOMAIN MONTH_MAP
       /\ result[1].message_date =
            [year |-> result[1].year,
             month |-> MONTH_MAP[LowerStr(result[1].month)],
             day |-> 1]
  /\ (pc # "start" /\ MONTH_YEAR_PATTERN(raw) # {}) =>
       ~(pc = "raised" /\ err[1].type = "KeyError")

\* the line is a header line of another category than name, or a closing line
EndsBlock(line, name) ==
  \/ EndMarkerLine(line)
  \/ \E c \in {"Kaltwasser", "Warmwasser", "Heizung"} \ {name} : ExactHeaderLine(line, c)

\* the lines strictly after line h and strictly before the first later line
\* that ends the block, joined and trimmed
BlockAfter(lines, name, h) ==
  Strip(JoinRange(lines, h + 1,
                  MinOr({j \in (h + 1)..Len(lines) : EndsBlock(lines[j], name)},
                        Len(lines) + 1) - 1))

\* the block of the category name in lines, which hold a header line of it
BlockOf(lines, name) ==
  BlockAfter(lines, name, Min({h \in 1..Len(lines) : ExactHeaderLine(lines[h], name)}))

\* the outcome for category k is that of parsing block alone
ParsedFromBlock(k, block) ==
  IF block = <<>>
  THEN /\ pc = "raised"
       /\ Len(sections) = k - 1
       /\ err[1] = [type |-> "ValueError", msg |-> "Could not parse content for",
                    name |-> CategoryAt(k)]
  ELSE IF k <= Len(sections)
  THEN ParseSectionText(block, CategoryAt(k)) = Ok(sections[k])
  ELSE ParseSectionText(block, CategoryAt(k)) = [ok |-> FALSE, val |-> err[1]]

\* C18: when the parse has ended, for every attempted category with a header
\* line, the text parsed is
\* the block of lines strictly after its first header line and strictly
\* before the first later line that is a header line of another category or
\* starts with "falls sie fragen", or the end of the input: unit,
\* current_month, previous_year and property_average are those found in that
\* block alone, and the parse fails if the block is empty after trimming.
C18_ParsedFromOwnBlock ==
  Terminated =>
    \A k \in 1..3 :
      (Attempted(k) /\ ~LacksHeader(RawLines, CategoryAt(k))) =>
        ParsedFromBlock(k, BlockOf(RawLines, CategoryAt(k)))

\* a closing line followed by values ends the Heizung block of a parsed
\* message, and the Heizung values are those of the block
C18_Witness ==
  /\ pc = "returned"
  /\ \E j \in 1..(Len(RawLines) - 1) : EndMarkerLine(RawLines[j])
  /\ ParseSectionText(BlockOf(RawLines, "Heizung"), "Heizung") = Ok(sections[3])
  /\ Len(OccurrencesIn(BlockOf(RawLines, "Heizung"))) = 2

\* the error is that of the year: the range check or the date construction
IsYearError(e) ==
  e.msg \in {"Year must be between 2000 and 2100", "year is out of range"}

\* C19: the year check precedes the section parsing: a message whose year
\* lies outside 2000..2100 and which has a section that cannot be parsed
\* fails with the year error, and no section is parsed.
C19_YearCheckedBeforeSections ==
  (Terminated /\ MONTH_YEAR_PATTERN(raw) # {}) =>
    ((~InRange(MatchedYear(raw)) /\ FirstFailing(raw) # 0) =>
       /\ pc = "raised"
       /\ IsYearError(err[1])
       /\ sections = <<>>)

\* ------------------------------------------------------------------------
\* Properties of the text extractor (specification SpecExtract)
\* ------------------------------------------------------------------------
\* the positions of the marker in exactly the case "Verbrauchswerte"
ExactMarkers(text) ==
  {i \in 1..Len(text) : text[i].t = "w" /\ text[i].s = "Verbrauchswerte"}

\* C8: the extractor returns absent exactly when the text does not contain
\* "Verbrauchswerte" in that very case, and what it returns otherwise is a
\* non-empty string.
C8_AbsentIffNoMarker ==
  xpc = "returned" =>
    /\ extracted = <<>> <=> ExactMarkers(xtext) = {}
    /\ extracted # <<>> => extracted[1] # <<>>

\* a text that holds the keyword in upper case only is answered with absent
C8_Witness ==
  /\ xpc = "returned"
  /\ extracted = <<>>
  /\ \E i \in 1..Len(xtext) : xtext[i] = W("VERBRAUCHSWERTE")

\* str is what remains of text from position i on, up to trailing whitespace
StartsAtPosition(str, text, i) ==
  /\ Len(str) <= Len(text) - i + 1
  /\ str = SubSeq(text, i, i + Len(str) - 1)

\* C9: a returned substring begins with the exact text "Verbrauchswerte", at
\* the first position where that marker occurs in the normalized text.
C9_StartsAtExactMarker ==
  (xpc = "returned" /\ extracted # <<>>) =>
    /\ extracted[1][1] = W("Verbrauchswerte")
    /\ StartsAtPosition(extracted[1], cleaned, Min(ExactMarkers(cleaned)))

\* position i of str begins a line with a closing phrase, in any letter case
CloserLineAt(str, i) ==
  /\ i >= 2
  /\ str[i - 1] = LF
  /\ str[i].t = "w"
  /\ FoldStr(str[i].s) \in Closers

\* str reaches the end of text, up to surrounding whitespace
ReachesEnd(str, text) ==
  \E s \in 1..Len(text) : str = Strip(SubSeq(text, s, Len(text)))

EndsBeforeCloser(str, text, m) ==
  /\ \A i \in 1..Len(str) : ~CloserLineAt(str, i)
  /\ (\A j \in (m + 1)..Len(text) : ~CloserLineAt(text, j)) => ReachesEnd(str, text)

\* C10: a returned substring contains no line that begins with a closing
\* phrase, and when no line beginning with a closing phrase follows the
\* marker "Verbrauchswerte" it extends to the end of the normalized text.
C10_EndsBeforeCloser ==
  (xpc = "returned" /\ extracted # <<>>) =>
    EndsBeforeCloser(extracted[1], cleaned, Min(ExactMarkers(cleaned)))

\* str holds no carriage return, no tab, no two spaces in a row and no three
\* newlines in a row
IsNormalized(str) ==
  \A i \in 1..Len(str) :
    /\ str[i] # CR
    /\ str[i] # TAB
    /\ ~(i + 1 <= Len(str) /\ str[i] = SP /\ str[i + 1] = SP)
    /\ ~(i + 2 <= Len(str) /\ str[i] = LF /\ str[i + 1] = LF /\ str[i + 2] = LF)

\* C11: every returned substring is normalized: it holds no carriage return,
\* no tab, no run of two or more spaces and no run of three or more
\* newlines; and the normalization changes neither the returned substring
\* nor the normalized text it was taken from.
C11_ResultIsNormalized ==
  /\ xpc \in {"capture", "returned"} =>
       IsNormalized(cleaned) /\ Normalization(cleaned) = cleaned
  /\ (xpc = "returned" /\ extracted # <<>>) =>
       IsNormalized(extracted[1]) /\ Normalization(extracted[1]) = extracted[1]

\* a text with a run of four blanks or four line endings after the keyword,
\* returned with the run collapsed
C11_Witness ==
  /\ xpc = "returned"
  /\ Len(xtext) >= 6
  /\ xtext[1] = W("Verbrauchswerte")
  /\ \/ \A i \in 2..5 : xtext[i].t = "ws"
     \/ \A i \in 2..5 : xtext[i].t = "nl"
  /\ extracted # <<>>
  /\ Len(extracted[1]) \in {3, 4}
  /\ extracted[1][Len(extracted[1])] = W("Kaltwasser")

\* ------------------------------------------------------------------------
\* Properties of the HTML fallback (specification SpecHtml)
\* ------------------------------------------------------------------------
\* the number of characters of str
Length(str) == TextLen(str, 1, Len(str))

\* the keywords found in str, letter case ignored
KeywordsIn(str) ==
  {k \in {"kaltwasser", "warmwasser", "heizung"} :
     \E i \in 1..Len(str) : str[i].t = "w" /\ FoldStr(str[i].s) = k}

\* length plus 500 for each keyword found
ClaimedScore(str) == Length(str) + 500 * Cardinality(KeywordsIn(str))

\* candidate i of the extractions ex is the first with the maximum score
FirstWithMaxScore(ex, i) ==
  /\ ex[i] # <<>>
  /\ \A j \in 1..Len(ex) :
       ex[j] # <<>> =>
         /\ ClaimedScore(ex[j][1]) <= ClaimedScore(ex[i][1])
         /\ j < i => ClaimedScore(ex[j][1]) < ClaimedScore(ex[i][1])

BestOf(ex) ==
  IF \A i \in 1..Len(ex) : ex[i] = <<>>
  THEN best_message = <<>>
  ELSE \E i \in 1..Len(ex) : FirstWithMaxScore(ex, i) /\ best_message = ex[i]

\* C12: the message returned by the HTML fallback is the extracted substring
\* whose score, its length plus 500 for each of the keywords Kaltwasser,
\* Warmwasser, Heizung found in it in any letter case, is the maximum, the
\* first in scan order among those with the maximum score; None is returned
\* only when no candidate yields an extraction.
C12_BestScoreWins ==
  hpc = "returned" =>
    BestOf([i \in 1..Len(page) |-> _extract_consumption_from_text(page[i])])

\* two candidates with different extractions of equal maximum score, the
\* first of which is returned
TieOf(ex) ==
  \E i, j \in 1..Len(ex) :
    /\ i < j
    /\ FirstWithMaxScore(ex, i)
    /\ ex[j] # <<>>
    /\ ex[j] # ex[i]
    /\ ClaimedScore(ex[j][1]) = ClaimedScore(ex[i][1])
    /\ best_message = ex[i]

C12_Witness ==
  /\ hpc = "returned"
  /\ TieOf([i \in 1..Len(page) |-> _extract_consumption_from_text(page[i])])

\* ------------------------------------------------------------------------
\* Properties of the deduplication (specification SpecDedup)
\* ------------------------------------------------------------------------
\* the text of a message up to its whitespace: its other tokens, each with
\* whether whitespace stands between it and the one before
Gapped(str, idx) ==
  [k \in 1..Len(idx) |-> <<str[idx[k]], k > 1 /\ idx[k] > idx[k - 1] + 1>>]

Collapsed(str) ==
  Gapped(str, SortedIdx({i \in 1..Len(str) : str[i].t \notin {"ws", "nl"}}, 1, Len(str)))

\* candidate i of the input is newer than candidate j, or as new and earlier
NewerOrEarlier(i, j) ==
  \/ StrLess(given[j].ts, given[i].ts)
  \/ given[i].ts = given[j].ts /\ i < j

\* the candidate of the input that carries message m and comes first in the
\* order newest first, input order among equal timestamps
SourceOf(m) ==
  CHOOSE i \in 1..Len(given) :
    /\ given[i].msg = m
    /\ \A j \in 1..Len(given) : (given[j].msg = m /\ j # i) => NewerOrEarlier(i, j)

\* C13: the returned messages stand in the order of their candidates, newest
\* timestamp string first and candidates with equal timestamps in their
\* input order.
C13_NewestFirstStable ==
  dpc = "returned" =>
    /\ \A j \in 1..Len(messages) : \E i \in 1..Len(given) : given[i].msg = messages[j]
    /\ \A j, k \in 1..Len(messages) :
         j < k => NewerOrEarlier(SourceOf(messages[j]), SourceOf(messages[k]))

\* two returned messages whose candidates have equal timestamps and stand
\* in their input order, after a sort that moved a candidate with the
\* timestamp "10" behind them
C13_Witness ==
  /\ dpc = "returned"
  /\ Len(messages) = 2
  /\ given[SourceOf(messages[1])].ts = <<2>>
  /\ given[SourceOf(messages[2])].ts = <<2>>
  /\ SourceOf(messages[1]) < SourceOf(messages[2])
  /\ given[1].ts = <<1, 0>>
  /\ candidates[3].ts = <<1, 0>>

\* the candidates of the input whose text equals that of m up to whitespace
GroupOf(m) == {i \in 1..Len(given) : Collapsed(given[i].msg) = Collapsed(m)}

\* C14: no two returned messages are equal up to whitespace; a returned
\* message is carried by a candidate whose timestamp is the largest among
\* the candidates with the same text up to whitespace; and without a limit
\* the text of every candidate is represented in the result.
C14_OnePerNormalizedText ==
  dpc = "returned" =>
    /\ \A j, k \in 1..Len(messages) :
         j # k => Collapsed(messages[j]) # Collapsed(messages[k])
    /\ \A j \in 1..Len(messages) :
         \E i \in GroupOf(messages[j]) :
           /\ given[i].msg = messages[j]
           /\ \A g \in GroupOf(messages[j]) : ~StrLess(given[i].ts, given[g].ts)
    /\ limit = <<>> =>
         \A i \in 1..Len(given) :
           \E j \in 1..Len(messages) : Collapsed(messages[j]) = Collapsed(given[i].msg)

\* two candidates that differ in whitespace and timestamp, the newer of
\* which is returned and the older is not
C14_Witness ==
  /\ dpc = "returned"
  /\ \E i, j \in 1..Len(given) :
       /\ given[i].msg # given[j].msg
       /\ Collapsed(given[i].msg) = Collapsed(given[j].msg)
       /\ StrLess(given[i].ts, given[j].ts)
       /\ \E k \in 1..Len(messages) : messages[k] = given[j].msg
       /\ \A k \in 1..Len(messages) : messages[k] # given[i].msg

\* the candidates of the input that come first among those with their text
FirstOfGroup ==
  {i \in 1..Len(given) :
     \A g \in GroupOf(given[i].msg) : g # i => NewerOrEarlier(i, g)}

\* the result without a limit
Unlimited ==
  [k \in 1..Cardinality(FirstOfGroup) |->
     given[CHOOSE i \in FirstOfGroup :
             Cardinality({g \in FirstOfGroup : NewerOrEarlier(g, i)}) = k - 1].msg]

FirstEntries(list, n) == SubSeq(list, 1, IF n < Len(list) THEN n ELSE Len(list))

\* C15: with a limit of 0 or more and a non-empty candidate list the result
\* holds at most limit messages and equals the first limit entries of the
\* result without a limit; for an empty candidate list the result is empty.
C15_AtMostLimit ==
  dpc = "returned" =>
    /\ given = <<>> => messages = <<>>
    /\ (given # <<>> /\ limit # <<>>) =>
         /\ Len(messages) <= limit[1]
         /\ messages = FirstEntries(Unlimited, limit[1])

\* C16: a call leaves the caller's candidate list as it was: the same
\* elements in the same order after the call as before.
C16_ArgumentUnchanged == dpc = "returned" => candidates = given

\* ------------------------------------------------------------------------
\* Properties of main (specification SpecMain)
\* ------------------------------------------------------------------------
\* the content hashes of the rows saved at time r
SavedBy(r) ==
  {store[i].content_hash : i \in {j \in 1..Len(store) : store[j].created_at = r}}

\* the content hashes of the messages for which run r sent an email
SentBy(r) ==
  {outbox[i].message : i \in {j \in 1..Len(outbox) : outbox[j].run = r}}

\* the content hashes of the rows saved before time r
StoredBefore(r) ==
  {store[i].content_hash : i \in {j \in 1..Len(store) : store[j].created_at < r}}

OneRowPerHash ==
  \A i, j \in 1..Len(store) : store[i].content_hash = store[j].content_hash => i = j

\* C17: whatever the runs of main and the lists they fetched, the store
\* holds at most one row per content_hash, and a message whose content_hash
\* the check finds stored is neither saved again nor notified: the messages
\* that are new in a run, and the emails a run sends, are for rows the same
\* run saved, never for a row of an earlier run.
C17_IdempotentPersistence ==
  /\ OneRowPerHash
  /\ \A r \in 1..run : SentBy(r) \subseteq SavedBy(r)
  /\ {new_messages[n].content_hash : n \in 1..Len(new_messages)} \subseteq SavedBy(run)
  /\ \A r \in 1..run : SavedBy(r) \cap StoredBefore(r) = {}

\* the second run fetched a stored message and a new one, skipped the
\* first, saved the second and sent one email
C17_Witness ==
  /\ run = 2
  /\ mpc = "exited"
  /\ exit_code = <<0>>
  /\ Len(raw_messages) = 2
  /\ \E m \in 1..2 : generate_content_hash(raw_messages[m]) \in StoredBefore(2)
  /\ Len(new_messages) = 1
  /\ Cardinality(SentBy(2)) = 1
  /\ Len(store) = 2

\* the content hashes of the fetched messages
FetchedHashes == {generate_content_hash(raw_messages[m]) : m \in 1..Len(raw_messages)}

\* C20: when a run of main has ended, exit code 0 means that the run saved
\* at least one new message and sent an email for every message it saved;
\* the exit code is 2 exactly when no step raised and either no message was
\* fetched or every fetched message was stored before the run, and then the
\* run saved nothing and sent nothing; the exit code is 1 whenever a step
\* raised.
C20_ExitCodeReflectsOutcome ==
  mpc = "exited" =>
    /\ exit_code = <<0>> => (SavedBy(run) # {} /\ SavedBy(run) \subseteq SentBy(run))
    /\ exit_code = <<2>> <=>
         (exc = <<>> /\ (raw_messages = <<>> \/ FetchedHashes \subseteq StoredBefore(run)))
    /\ exit_code = <<2>> => (SavedBy(run) = {} /\ SentBy(run) = {})
    /\ exc # <<>> => exit_code = <<1>>

\* a run that fetched only messages of an earlier run, which had sent an
\* email, ends with exit code 2
C20_Witness ==
  /\ run = 2
  /\ mpc = "exited"
  /\ exit_code = <<2>>
  /\ raw_messages # <<>>
  /\ SentBy(1) # {}

\* ------------------------------------------------------------------------
\* Further properties of the message parser (specification Spec)
\* ------------------------------------------------------------------------
\* position p lies on the line on which the average match starts at a
OnAverageLine(str, a, p) == a <= p /\ \A j \in a..p : str[j] # LF

\* the dated values of str that do not lie on the line of the average match
DatedBesideAverage(str, avg_matches) ==
  {p \in CURRENT_VALUE_PATTERN(str) :
     avg_matches = {} \/ ~OnAverageLine(str, Min(avg_matches), p)}

\* category k was parsed from section_text, which holds two dated values
\* besides its average line, and its average is neither of the two values
ValuesBesideAverage(k, section_text) ==
  /\ Cardinality(DatedBesideAverage(section_text, AVERAGE_PATTERN(section_text))) >= 2
  /\ sections[k].property_average
       \notin {sections[k].current_month, sections[k].previous_year}

\* C21: when the parse has ended, every parsed section has at least two dated
\* value lines besides its property-average line (a section with fewer fails
\* to parse, also when the average line is itself of the dated form), and
\* the value reported as property_average is not also reported as
\* current_month or previous_year.
C21_ValuesNotFromAverageLine ==
  Terminated =>
    \A k \in 1..Len(sections) :
      ValuesBesideAverage(k, _extract_section_text(raw, CategoryAt(k)).val)

\* the unit token that follows the value token at position v
UnitAfter(str, v) == str[SkipSpace(str, v + 1)].s

\* the unit tokens that follow the first two dated values of str, whose
\* matches are occ, and its average value, whose match starts at a
ValueUnits(str, occ, a) ==
  {UnitAfter(str, SkipSpace(str, occ[1] + 2)),
   UnitAfter(str, SkipSpace(str, occ[2] + 2)),
   UnitAfter(str, SkipSpace(str, Min(AverageColons(str, a)) + 1))}

\* the unit of category k is a unit token and the one of its values
UnitOfValues(k, section_text) ==
  /\ sections[k].unit \in {"m3", "kWh"}
  /\ ValueUnits(section_text,
                SortedIdx(CURRENT_VALUE_PATTERN(section_text), 1, Len(section_text)),
                Min(AVERAGE_PATTERN(section_text))) = {sections[k].unit}

\* C24: when the parse has ended, the unit of every parsed section is one of
\* the two unit tokens and equals the unit token that follows its
\* current_month value, its previous_year value and its property_average
\* value in the section text.
C24_UnitOfTheValues ==
  Terminated =>
    \A k \in 1..Len(sections) :
      UnitOfValues(k, _extract_section_text(raw, CategoryAt(k)).val)

\* ------------------------------------------------------------------------
\* Further properties of the extractor (specification SpecExtract)
\* ------------------------------------------------------------------------
\* the first position of the keyword in str, in any letter case
AnyCaseMarker(str) == Min(MarkerMatches(str))

\* str is the whole of text from position m on, up to surrounding
\* whitespace, when no line with a closing phrase begins after m
Untruncated(str, text, m) ==
  (\A j \in (m + 1)..Len(text) : ~CloserLineAt(text, j)) =>
    str = Strip(SubSeq(text, m, Len(text)))

\* C25: for every text that contains the marker keyword the closer-anchored
\* search matches: the fallback window of CONSUMPTION_EXTRACT_MAX_LENGTH
\* characters is not used, a substring is returned, and it runs to the end
\* of the normalized text when no closing line follows, however long that is.
C25_FallbackNeverUsed ==
  (xpc = "returned" /\ ExactMarkers(xtext) # {}) =>
    /\ ~fallback
    /\ extracted # <<>>
    /\ Untruncated(extracted[1], cleaned, AnyCaseMarker(cleaned))

\* a text with the keyword and no closing line, longer than the window, is
\* returned in full
C25_Witness ==
  /\ xpc = "returned"
  /\ ~fallback
  /\ extracted # <<>>
  /\ \A j \in 1..Len(cleaned) : ~CloserLineAt(cleaned, j)
  /\ TextLen(extracted[1], 1, Len(extracted[1])) > CONSUMPTION_EXTRACT_MAX_LENGTH

\* ------------------------------------------------------------------------
\* Further properties of main (specification SpecMain)
\* ------------------------------------------------------------------------
\* the content hashes of the messages for which an email has been sent
Notified == {outbox[i].message : i \in 1..Len(outbox)}

\* C22: whenever a run of main has ended, an email has been sent, in that
\* run or an earlier one, for the content_hash of every row of the store.
C22_EverySavedMessageNotified ==
  mpc = "exited" => \A i \in 1..Len(store) : store[i].content_hash \in Notified

\* ------------------------------------------------------------------------
\* Properties of two runs of main at the same time (specification SpecConc)
\* ------------------------------------------------------------------------
\* the rows of the table that hold hash
RowsOf(hash) == {i \in 1..Len(table) : table[i].content_hash = hash}

\* the emails mailed for the message of hash
EmailsOf(hash) == {i \in 1..Len(mailed) : mailed[i].message = hash}

\* C23: when both runs have ended, whatever the interleaving of their
\* check_exists, save_message and send_email steps, every fetched message,
\* all of them new, is stored in exactly one row and exactly one email has
\* been mailed for it.
C23_StoredOnceNotifiedOnce ==
  (\A p \in Runs : ppc[p] = "exited") =>
    \A m \in 1..Len(batch) :
      /\ Cardinality(RowsOf(generate_content_hash(batch[m]))) = 1
      /\ Cardinality(EmailsOf(generate_content_hash(batch[m]))) = 1

====
